---- MODULE Spec2Model ----
(***************************************************************************)
(* A model of the converter (src/main.go): the dotted-path navigator       *)
(* extractFieldValue, the dotted-path writer insertFieldValue, the side    *)
(* file loader extractFileData, the typed generator generateRandomValue    *)
(* and the per-document loop of main.                                      *)
(*                                                                         *)
(* Go maps are reference values.  The model keeps them in a heap: a        *)
(* sequence of map objects, the address of an object being its index.  A   *)
(* value of type interface{} is a tagged record: nil, a string, a number,  *)
(* a boolean, struct{}{} or a reference to a map object.                   *)
(***************************************************************************)
EXTENDS Integers, Sequences, FiniteSets, TLC

VARIABLES
    heap,       \* the Go heap: a sequence of map[string]interface{} objects
    pc,         \* the position of the running function
    panicked,   \* TRUE once a run-time panic has aborted the process
    data,       \* the map argument of the function under call (an address)
    path,       \* the []string argument of the function under call
    value,      \* the interface{} argument of insertFieldValue
    ret,        \* the value the last call returned
    heap0,      \* the heap as it was before the last insertFieldValue call
    config,     \* the config argument of generateRandomValue
    records,    \* the rows csv.ReadAll returned for the side file
    dataMapByID, \* the table extractFileData built
    mapping,    \* main: the decoded mapping file (FieldMapping)
    files,      \* main: the side files on disk, by path
    input,      \* main: the document as decoded from its input line
    newSource,  \* main: the address of the map newSource
    pending,    \* main: the keys the running range loop has yet to visit
    pendingRow, \* main: the columns the inner range loop has yet to visit
    log,        \* main: the insertFieldValue calls made so far, in order
    output      \* main: the document json.Marshal produced

fnVars == <<data, path, value>>
loadVars == <<records, dataMapByID>>
mainVars == <<mapping, files, input, newSource, pending, pendingRow, log, output>>
vars == <<heap, heap0, pc, panicked, ret, fnVars, config, loadVars, mainVars>>

MainIdle ==
    /\ mapping = <<>> /\ files = <<>> /\ input = <<>> /\ newSource = 0
    /\ pending = {} /\ pendingRow = {} /\ log = <<>> /\ output = <<>>

(***************************************************************************)
(* Bounds of the model.                                                    *)
(***************************************************************************)
MaxNodes == 3       \* keys, in total, of a document drawn as an input
MaxPathLen == 3     \* segments of a path drawn as an input
IntBits == 4        \* the width of int, scaled down from Go's 64
MaxCols == 3        \* columns of a side file drawn as an input
MaxRows == 2        \* data rows of a side file drawn as an input
MaxDocNodes == 2    \* keys, in total, of the document main converts
MaxRules == 3       \* entries, in total, of the mapping file

Base64Samples == {"AAAA", "/w=="}

KeySeq == <<"a", "b">>
Keys == {KeySeq[i] : i \in 1..Len(KeySeq)}

(***************************************************************************)
(* interface{} values.                                                     *)
(***************************************************************************)
Nil == [k |-> "nil"]
Str(s) == [k |-> "str", s |-> s]
Num(n) == [k |-> "num", n |-> n]
Bool(b) == [k |-> "bool", b |-> b]
Ref(a) == [k |-> "ref", a |-> a]
Obj(m) == [k |-> "obj", m |-> m]

NullValue == Str("NULL")

EmptyMap == <<>>

Put(h, a, key, v) == [h EXCEPT ![a] = (key :> v) @@ h[a]]

(***************************************************************************)
(* extractFieldValue(data, path).                                          *)
(***************************************************************************)
\* a variant that hands a stored null back as it is, without the sentinel
RECURSIVE extractFieldValue_NoSentinel(_, _, _)
extractFieldValue_NoSentinel(h, d, p) ==
    IF Len(p) = 0 THEN Ref(d)
    ELSE IF p[1] \notin DOMAIN h[d] THEN Nil
    ELSE LET val == h[d][p[1]] IN
         IF Len(p) = 1 THEN val
         ELSE IF val.k = "ref"
              THEN extractFieldValue_NoSentinel(h, val.a, Tail(p))
              ELSE Nil

\* a variant that returns the value it stopped at when that is no map
RECURSIVE extractFieldValue_LastFound(_, _, _)
extractFieldValue_LastFound(h, d, p) ==
    IF Len(p) = 0 THEN Ref(d)
    ELSE IF p[1] \notin DOMAIN h[d] THEN Nil
    ELSE LET val == h[d][p[1]] IN
         IF Len(p) = 1
         THEN (IF val = Nil THEN NullValue ELSE val)
         ELSE IF val.k = "ref"
              THEN extractFieldValue_LastFound(h, val.a, Tail(p))
              ELSE val

RECURSIVE extractFieldValue(_, _, _)
extractFieldValue(h, d, p) ==
    IF Len(p) = 0 THEN Ref(d)
    ELSE IF p[1] \notin DOMAIN h[d] THEN Nil
    ELSE LET val == h[d][p[1]] IN
         IF Len(p) = 1
         THEN (IF val = Nil THEN NullValue ELSE val)
         ELSE IF val.k = "ref"
              THEN extractFieldValue(h, val.a, Tail(p))
              ELSE Nil

(***************************************************************************)
(* insertFieldValue(data, path, value).  The result is the heap the call   *)
(* leaves and whether it panicked (a failed type assertion on an           *)
(* intermediate segment, or an index out of range on an empty path).       *)
(***************************************************************************)
\* a variant without the exists test: every intermediate map is made anew
RECURSIVE insertLoop_AlwaysCreate(_, _, _, _, _)
insertLoop_AlwaysCreate(h, d, p, i, v) ==
    IF i < Len(p)
    THEN LET h1 == Put(Append(h, EmptyMap), d, p[i], Ref(Len(h) + 1))
         IN  insertLoop_AlwaysCreate(h1, Len(h) + 1, p, i + 1, v)
    ELSE IF Len(p) = 0
         THEN [heap |-> h, panic |-> TRUE]
         ELSE [heap |-> Put(h, d, p[Len(p)], IF v = NullValue THEN Nil ELSE v),
               panic |-> FALSE]

\* a variant whose final store deletes the key where it already holds the value
RECURSIVE insertLoop_Toggle(_, _, _, _, _)
insertLoop_Toggle(h, d, p, i, v) ==
    IF i < Len(p)
    THEN LET key == p[i]
             h1 == IF key \notin DOMAIN h[d]
                   THEN Put(Append(h, EmptyMap), d, key, Ref(Len(h) + 1))
                   ELSE h
             nxt == h1[d][key]
         IN  IF nxt.k = "ref"
             THEN insertLoop_Toggle(h1, nxt.a, p, i + 1, v)
             ELSE [heap |-> h1, panic |-> TRUE]
    ELSE IF Len(p) = 0
         THEN [heap |-> h, panic |-> TRUE]
         ELSE LET key == p[Len(p)]
                  w == IF v = NullValue THEN Nil ELSE v
              IN  IF key \in DOMAIN h[d] /\ h[d][key] = w
                  THEN [heap |-> [h EXCEPT ![d] = [x \in DOMAIN h[d] \ {key} |-> h[d][x]]],
                        panic |-> FALSE]
                  ELSE [heap |-> Put(h, d, key, w), panic |-> FALSE]

\* a variant that replaces an intermediate value that is no map by a new map
RECURSIVE insertLoop_Overwrite(_, _, _, _, _)
insertLoop_Overwrite(h, d, p, i, v) ==
    IF i < Len(p)
    THEN LET key == p[i]
             h1 == IF key \notin DOMAIN h[d] \/ h[d][key].k # "ref"
                   THEN Put(Append(h, EmptyMap), d, key, Ref(Len(h) + 1))
                   ELSE h
         IN  insertLoop_Overwrite(h1, h1[d][key].a, p, i + 1, v)
    ELSE IF Len(p) = 0
         THEN [heap |-> h, panic |-> TRUE]
         ELSE [heap |-> Put(h, d, p[Len(p)], IF v = NullValue THEN Nil ELSE v),
               panic |-> FALSE]

RECURSIVE insertLoop(_, _, _, _, _)
insertLoop(h, d, p, i, v) ==
    IF i < Len(p)
    THEN LET key == p[i]
             h1 == IF key \notin DOMAIN h[d]
                   THEN Put(Append(h, EmptyMap), d, key, Ref(Len(h) + 1))
                   ELSE h
             nxt == h1[d][key]
         IN  IF nxt.k = "ref"
             THEN insertLoop(h1, nxt.a, p, i + 1, v)
             ELSE [heap |-> h1, panic |-> TRUE]
    ELSE IF Len(p) = 0
         THEN [heap |-> h, panic |-> TRUE]
         ELSE [heap |-> Put(h, d, p[Len(p)], IF v = NullValue THEN Nil ELSE v),
               panic |-> FALSE]

\* a variant that does not descend: the value goes under the first segment
insertFieldValue_TopLevel(h, d, p, v) ==
    IF Len(p) = 0 THEN [heap |-> h, panic |-> TRUE]
    ELSE [heap |-> Put(h, d, p[1], IF v = NullValue THEN Nil ELSE v), panic |-> FALSE]

insertFieldValue(h, d, p, v) == insertLoop(h, d, p, 1, v)

(***************************************************************************)
(* json.Unmarshal into map[string]interface{}: a JSON object becomes a     *)
(* fresh map object, every nested object a fresh map object of its own.    *)
(***************************************************************************)
RECURSIVE unmarshalFill(_, _, _, _)
unmarshalFill(h, a, m, ks) ==
    IF ks = <<>> THEN h
    ELSE LET key == Head(ks) IN
         IF key \notin DOMAIN m THEN unmarshalFill(h, a, m, Tail(ks))
         ELSE IF m[key].k = "obj"
              THEN LET h1 == unmarshalFill(Append(h, EmptyMap), Len(h) + 1,
                                           m[key].m, KeySeq)
                   IN  unmarshalFill(Put(h1, a, key, Ref(Len(h) + 1)), a, m, Tail(ks))
              ELSE unmarshalFill(Put(h, a, key, m[key]), a, m, Tail(ks))

Unmarshal(h, m) == unmarshalFill(Append(h, EmptyMap), Len(h) + 1, m, KeySeq)

(***************************************************************************)
(* The inputs: JSON documents of at most MaxNodes keys in total, paths of  *)
(* at most MaxPathLen segments.                                            *)
(***************************************************************************)
Scalars == {Nil, Num(1)}

RECURSIVE ObjsOver(_, _), ValsOfWeight(_)
ObjsOver(ks, n) ==
    IF ks = <<>> THEN (IF n = 0 THEN {EmptyMap} ELSE {})
    ELSE ObjsOver(Tail(ks), n)
         \cup UNION {{(Head(ks) :> v) @@ f : v \in ValsOfWeight(w),
                                          f \in ObjsOver(Tail(ks), n - w)}
                     : w \in 1..n}
ValsOfWeight(w) ==
    IF w = 1 THEN Scalars \cup {Obj(EmptyMap)}
    ELSE {Obj(f) : f \in ObjsOver(KeySeq, w - 1)}

Documents == UNION {ObjsOver(KeySeq, n) : n \in 0..MaxNodes}

PathsOfLen(l) == [1..l -> Keys]
Paths == UNION {PathsOfLen(l) : l \in 1..MaxPathLen}

(***************************************************************************)
(* Calls of the two path functions on a document, a path and a value.      *)
(* The heap holds the unmarshalled document at address 1 and one more,     *)
(* empty, map; the value is a scalar or any map of the heap.               *)
(***************************************************************************)
FnInit ==
    /\ \E m \in Documents : heap = Append(Unmarshal(<<>>, m), EmptyMap)
    /\ data = 1
    /\ path \in Paths
    /\ value \in {Nil, NullValue, Num(2)} \cup {Ref(a) : a \in 1..Len(heap)}
    /\ pc = "start"
    /\ panicked = FALSE
    /\ ret = Nil
    /\ heap0 = heap
    /\ config = EmptyMap
    /\ records = <<>> /\ dataMapByID = EmptyMap
    /\ MainIdle

CallExtract ==
    /\ pc \in {"start", "inserted"}
    /\ ret' = extractFieldValue(heap, data, path)
    /\ pc' = IF pc = "start" THEN "extracted" ELSE "roundtrip"
    /\ UNCHANGED <<heap, heap0, panicked, fnVars, config, loadVars, mainVars>>

CallInsert ==
    /\ pc \in {"start", "inserted"}
    /\ LET r == insertFieldValue(heap, data, path, value) IN
        /\ heap' = r.heap
        /\ panicked' = r.panic
        /\ pc' = IF pc = "start"
                 THEN (IF r.panic THEN "aborted" ELSE "inserted")
                 ELSE (IF r.panic THEN "aborted2" ELSE "inserted2")
    /\ heap0' = heap
    /\ UNCHANGED <<ret, fnVars, config, loadVars, mainVars>>

FnNext == CallExtract \/ CallInsert

FnSpec == FnInit /\ [][FnNext]_vars

(***************************************************************************)
(* What a path holds in a heap, read independently of extractFieldValue:   *)
(* Container is the map object the segments q lead to (0 when a segment    *)
(* is missing or holds no map), Slot is what that walk finds stored at a   *)
(* non-empty path.                                                         *)
(***************************************************************************)
RECURSIVE Container(_, _, _)
Container(h, d, q) ==
    IF q = <<>> THEN d
    ELSE IF q[1] \in DOMAIN h[d] /\ h[d][q[1]].k = "ref"
         THEN Container(h, h[d][q[1]].a, Tail(q))
         ELSE 0

Front(q) == SubSeq(q, 1, Len(q) - 1)
Last(q) == q[Len(q)]
Absent == [k |-> "absent"]

Slot(h, d, q) ==
    LET c == Container(h, d, Front(q)) IN
    IF c = 0 \/ Last(q) \notin DOMAIN h[c] THEN Absent ELSE h[c][Last(q)]

\* an intermediate (non-final) segment of q holds a value that is no map
BlockedPath(h, d, q) ==
    \E i \in 1..(Len(q) - 1) :
        LET s == Slot(h, d, SubSeq(q, 1, i)) IN s # Absent /\ s.k # "ref"

(***************************************************************************)
(* C1 as stated: after insertFieldValue(t, p, v), extractFieldValue(t, p)  *)
(* returns v, for every value v.                                           *)
(***************************************************************************)
C1_RoundTripEveryValue == pc = "roundtrip" => ret = value

(***************************************************************************)
(* C1 amended: after an insertFieldValue(t, p, v) that completed,          *)
(* extractFieldValue(t, p) returns v, except that for the native null it   *)
(* returns the NullValue sentinel.                                         *)
(***************************************************************************)
C1_RoundTrip ==
    pc = "roundtrip" => ret = (IF value = Nil THEN NullValue ELSE value)

C1_Witness ==
    /\ pc = "roundtrip"
    /\ Len(path) = 3
    /\ Len(heap) > Len(heap0)
    /\ value = Num(2)
    /\ ret = value

(***************************************************************************)
(* C4: extractFieldValue returns the NullValue sentinel for a key of the   *)
(* reached container that stores null, native null for a segment that is   *)
(* no key of the container, and any other stored value as it is.           *)
(***************************************************************************)
C4_NullVersusAbsent ==
    pc = "extracted" =>
        LET c == Container(heap, data, Front(path)) IN
        c # 0 =>
            ret = IF Last(path) \notin DOMAIN heap[c] THEN Nil
                  ELSE IF heap[c][Last(path)] = Nil THEN NullValue
                  ELSE heap[c][Last(path)]

C4_Witness ==
    /\ pc = "extracted"
    /\ Len(path) = 2
    /\ Slot(heap, data, path) = Nil
    /\ ret = NullValue

(***************************************************************************)
(* C5: a second insertFieldValue(t, p, v) after one that succeeded         *)
(* succeeds too and leaves the tree as the first one left it.              *)
(***************************************************************************)
C5_Idempotent ==
    /\ pc # "aborted2"
    /\ pc = "inserted2" => heap = heap0

C5_Witness ==
    /\ pc = "inserted2"
    /\ Len(path) = 3
    /\ value.k = "ref"
    /\ heap[1] # EmptyMap

(***************************************************************************)
(* C7: with more than one segment left at a value that is no map (a        *)
(* scalar or null), extractFieldValue returns native null, raises nothing  *)
(* and leaves the tree as it was.                                          *)
(***************************************************************************)
C7_ScalarOnTheWay ==
    (pc = "extracted" /\ BlockedPath(heap0, data, path)) =>
        ret = Nil /\ ~panicked /\ heap = heap0

C7_Witness ==
    /\ pc = "extracted"
    /\ BlockedPath(heap0, data, path)
    /\ Slot(heap0, data, <<path[1]>>) = Num(1)
    /\ ret = Nil

(***************************************************************************)
(* C9: insertFieldValue on a path with an intermediate segment that holds  *)
(* a value that is no map aborts the run, stores nothing and leaves the    *)
(* tree as it was before the call.                                         *)
(***************************************************************************)
C9_InsertAborts ==
    (pc \in {"inserted", "aborted"} /\ BlockedPath(heap0, data, path)) =>
        pc = "aborted" /\ panicked /\ heap = heap0

C9_Witness ==
    /\ pc = "aborted"
    /\ Len(path) = 3
    /\ Slot(heap0, data, SubSeq(path, 1, 2)) = Nil
    /\ heap = heap0

(***************************************************************************)
(* generateRandomValue(rn, config).  Go's int is IntBits wide and wraps    *)
(* silently; rn.Intn(n) panics unless n > 0 and else returns any of        *)
(* 0..n-1.  The model keeps the arithmetic and scales the width down.      *)
(* min and max are float64 values of the mapping file, here integral and   *)
(* within the range of int, so that int(x) is x.  A real result is held    *)
(* in hundredths.                                                          *)
(***************************************************************************)
RECURSIVE Pow2(_)
Pow2(n) == IF n = 0 THEN 1 ELSE 2 * Pow2(n - 1)
Pow2Bits == Pow2(IntBits)
MinInt == 0 - Pow2Bits \div 2
MaxInt == Pow2Bits \div 2 - 1
WrapInt(x) == ((x - MinInt) % Pow2Bits) + MinInt

Struct == [k |-> "struct"]
List(l) == [k |-> "list", l |-> l]
Float(c) == [k |-> "float", c |-> c]
Panic == [k |-> "panic"]

Field(c, f) == IF f \in DOMAIN c THEN c[f] ELSE Nil

generateRandomValue(c) ==
    LET type == Field(c, "type")
        min == Field(c, "min")
        max == Field(c, "max")
        values == Field(c, "values")
    IN
    IF type = Str("binary") THEN {Str(b) : b \in Base64Samples}
    ELSE IF type = Str("boolean") THEN {Bool(i = 0) : i \in 0..1}
    ELSE IF type = Str("date") THEN {Struct}
    ELSE IF type \in {Str("long"), Str("integer"), Str("short"), Str("byte")}
    THEN IF min.k # "num" \/ max.k # "num" THEN {Panic}
         ELSE LET n == WrapInt(WrapInt(max.n - min.n) + 1) IN
              IF n <= 0 THEN {Panic}
              ELSE {Num(WrapInt(i + min.n)) : i \in 0..(n - 1)}
    ELSE IF type \in {Str("double"), Str("float"), Str("half_float")}
    THEN IF min.k # "num" \/ max.k # "num" THEN {Panic}
         ELSE IF min.n <= max.n
              THEN {Float(x) : x \in (100 * min.n)..(100 * max.n)}
              ELSE {Float(x) : x \in (100 * max.n)..(100 * min.n)}
    ELSE IF type \in {Str("keyword"), Str("wildcard"), Str("constant_keyword")}
    THEN IF values.k # "list" \/ Len(values.l) <= 0 THEN {Panic}
         ELSE {values.l[i + 1] : i \in 0..(Len(values.l) - 1)}
    ELSE {Nil}

(***************************************************************************)
(* Calls of generateRandomValue on the configs of a mapping file.          *)
(***************************************************************************)
IntTypes == {"long", "integer", "short", "byte"}
RealTypes == {"double", "float", "half_float"}
WordTypes == {"keyword", "wildcard", "constant_keyword"}

Configs ==
    {("type" :> Str(t)) @@ ("min" :> Num(mn)) @@ ("max" :> Num(mx)) :
        t \in IntTypes, mn \in MinInt..MaxInt, mx \in MinInt..MaxInt}
    \cup {("type" :> Str(t)) @@ ("max" :> Num(1)) : t \in IntTypes \cup RealTypes}
    \cup {("type" :> Str(t)) @@ ("min" :> Num(mn)) @@ ("max" :> Num(mx)) :
        t \in RealTypes, mn \in 0..1, mx \in 0..1}
    \cup {("type" :> Str(t)) @@ ("values" :> List(l)) :
        t \in WordTypes, l \in {<<>>, <<Str("a")>>, <<Str("a"), Str("b")>>}}
    \cup {("type" :> Str(t)) : t \in {"binary", "boolean", "date", "text"} \cup WordTypes}
    \cup {EmptyMap}

GenInit ==
    /\ config \in Configs
    /\ pc = "start"
    /\ panicked = FALSE
    /\ ret = Nil
    /\ heap = <<>> /\ heap0 = <<>>
    /\ data = 0 /\ path = <<>> /\ value = Nil
    /\ records = <<>> /\ dataMapByID = EmptyMap
    /\ MainIdle

CallGenerate ==
    /\ pc = "start"
    /\ \E r \in generateRandomValue(config) :
        /\ panicked' = (r = Panic)
        /\ ret' = IF r = Panic THEN ret ELSE r
        /\ pc' = IF r = Panic THEN "aborted" ELSE "generated"
    /\ UNCHANGED <<heap, heap0, fnVars, config, loadVars, mainVars>>

GenNext == CallGenerate

GenSpec == GenInit /\ [][GenNext]_vars

(***************************************************************************)
(* C6: for a type long, integer, short or byte and integers min <= max,    *)
(* generateRandomValue returns an integer r with min <= r <= max whatever  *)
(* the random source yields; with min = max = 1 it returns 1.              *)
(***************************************************************************)
IsIntRange(c) ==
    /\ Field(c, "type") \in {Str(t) : t \in IntTypes}
    /\ Field(c, "min").k = "num" /\ Field(c, "max").k = "num"
    /\ c["min"].n <= c["max"].n

C6_WithinRange ==
    (pc # "start" /\ IsIntRange(config)) =>
        /\ ~panicked
        /\ ret.k = "num"
        /\ config["min"].n <= ret.n /\ ret.n <= config["max"].n

(***************************************************************************)
(* extractFileData(fileData, filePath), from the rows csv.ReadAll returns  *)
(* (all of the header's length: the reader rejects any other row).  The    *)
(* result is the table, a panic (no header row to index) or the fatal      *)
(* "id column not found".  Columns are counted from 1, NoIndex is the      *)
(* code's -1.                                                              *)
(***************************************************************************)
Fatal == [k |-> "fatal"]
Table(m) == [k |-> "table", m |-> m]
NoIndex == 0

RECURSIVE findID(_, _)
findID(headers, i) ==
    IF i > Len(headers) THEN NoIndex
    ELSE IF headers[i] = "id" THEN i
    ELSE findID(headers, i + 1)

RECURSIVE rowFields(_, _, _, _, _)
rowFields(headers, row, idIndex, i, fields) ==
    IF i > Len(headers) THEN fields
    ELSE IF i # idIndex
         THEN rowFields(headers, row, idIndex, i + 1,
                        (headers[i] :> Str(row[i])) @@ fields)
         ELSE rowFields(headers, row, idIndex, i + 1, fields)

\* a variant that keeps the first row of an id
RECURSIVE loadRows_FirstWins(_, _, _, _)
loadRows_FirstWins(recs, idIndex, r, m) ==
    IF r > Len(recs) THEN m
    ELSE loadRows_FirstWins(recs, idIndex, r + 1,
             m @@ (recs[r][idIndex] :> rowFields(recs[1], recs[r], idIndex, 1, EmptyMap)))

RECURSIVE loadRows(_, _, _, _)
loadRows(recs, idIndex, r, m) ==
    IF r > Len(recs) THEN m
    ELSE loadRows(recs, idIndex, r + 1,
                  (recs[r][idIndex] :> rowFields(recs[1], recs[r], idIndex, 1, EmptyMap))
                      @@ m)

extractFileData(recs) ==
    IF Len(recs) = 0 THEN Panic
    ELSE LET idIndex == findID(recs[1], 1) IN
         IF idIndex = NoIndex THEN Fatal
         ELSE Table(loadRows(recs, idIndex, 2, EmptyMap))

(***************************************************************************)
(* Calls of extractFileData on side files of at most MaxCols columns and   *)
(* MaxRows data rows.                                                      *)
(***************************************************************************)
HeaderNames == {"id", "a"}
Cells == {"1", "2"}

SideFiles ==
    {<<>>} \cup
    UNION {UNION {{<<hd>> \o rows : hd \in [1..n -> HeaderNames],
                                    rows \in [1..r -> [1..n -> Cells]]}
                  : r \in 0..MaxRows}
           : n \in 1..MaxCols}

LoadInit ==
    /\ records \in SideFiles
    /\ dataMapByID = EmptyMap
    /\ pc = "start"
    /\ panicked = FALSE
    /\ ret = Nil
    /\ heap = <<>> /\ heap0 = <<>>
    /\ data = 0 /\ path = <<>> /\ value = Nil
    /\ config = EmptyMap
    /\ MainIdle

CallExtractFileData ==
    /\ pc = "start"
    /\ LET r == extractFileData(records) IN
        /\ dataMapByID' = IF r.k = "table" THEN r.m ELSE dataMapByID
        /\ panicked' = (r = Panic)
        /\ pc' = IF r = Panic THEN "aborted"
                 ELSE IF r = Fatal THEN "fatal" ELSE "loaded"
    /\ UNCHANGED <<heap, heap0, ret, fnVars, config, records, mainVars>>

LoadNext == CallExtractFileData

LoadSpec == LoadInit /\ [][LoadNext]_vars

(***************************************************************************)
(* The rows of a side file that carry an id, the last of them, and the     *)
(* column extractFileData takes the id from (the first one named id).      *)
(***************************************************************************)
IdColumn(recs) == CHOOSE i \in 1..Len(recs[1]) :
    recs[1][i] = "id" /\ \A j \in 1..(i - 1) : recs[1][j] # "id"
RowsOf(recs, id) == {r \in 2..Len(recs) : recs[r][IdColumn(recs)] = id}
LastRowOf(recs, id) == CHOOSE r \in RowsOf(recs, id) : \A q \in RowsOf(recs, id) : q <= r
OtherColumns(recs) == (1..Len(recs[1])) \ {IdColumn(recs)}

(***************************************************************************)
(* C8 as stated: the field-set stored under an id holds every non-id       *)
(* column of the last row carrying the id, each under its header name,     *)
(* and nothing else.                                                       *)
(***************************************************************************)
C8_EveryColumnOfLastRow ==
    pc = "loaded" =>
        /\ DOMAIN dataMapByID = {records[r][IdColumn(records)] : r \in 2..Len(records)}
        /\ \A id \in DOMAIN dataMapByID :
            LET row == records[LastRowOf(records, id)] IN
            /\ DOMAIN dataMapByID[id] = {records[1][i] : i \in OtherColumns(records)}
            /\ \A i \in OtherColumns(records) :
                   dataMapByID[id][records[1][i]] = Str(row[i])

(***************************************************************************)
(* C8 amended: the field-set stored under an id is that of the last row    *)
(* carrying the id and nothing of an earlier row: one field per header     *)
(* name of a non-id column, holding the row's value in the rightmost       *)
(* column of that name.                                                    *)
(***************************************************************************)
C8_LastWriteWins ==
    pc = "loaded" =>
        /\ DOMAIN dataMapByID = {records[r][IdColumn(records)] : r \in 2..Len(records)}
        /\ \A id \in DOMAIN dataMapByID :
            LET row == records[LastRowOf(records, id)] IN
            /\ DOMAIN dataMapByID[id] = {records[1][i] : i \in OtherColumns(records)}
            /\ \A i \in OtherColumns(records) :
                   (\A j \in OtherColumns(records) : records[1][j] = records[1][i] => j <= i)
                       => dataMapByID[id][records[1][i]] = Str(row[i])

C8_Witness ==
    /\ pc = "loaded"
    /\ Len(records) = 3
    /\ records[1] = <<"a", "id">>
    /\ records[2][2] = records[3][2]
    /\ records[2][1] # records[3][1]
    /\ dataMapByID[records[3][2]]["a"] = Str(records[3][1])

(***************************************************************************)
(* strings.Split(s, "."): the segments between the dots, one segment (the  *)
(* empty string) for the empty string.                                     *)
(***************************************************************************)
RECURSIVE splitFrom(_, _, _)
splitFrom(s, i, cur) ==
    IF i > Len(s) THEN <<cur>>
    ELSE IF SubSeq(s, i, i) = "."
         THEN <<cur>> \o splitFrom(s, i + 1, "")
         ELSE splitFrom(s, i + 1, cur \o SubSeq(s, i, i))

Split(s) == splitFrom(s, 1, "")

(***************************************************************************)
(* json.Marshal of a value: a map becomes an object, struct{}{} the empty  *)
(* object; a map that holds itself makes the encoder fail.                 *)
(***************************************************************************)
MarshalErr == [k |-> "err"]

RECURSIVE marshalValue(_, _, _)
marshalValue(h, v, seen) ==
    IF v.k = "ref"
    THEN IF v.a \in seen THEN MarshalErr
         ELSE LET fields == [key \in DOMAIN h[v.a] |->
                                marshalValue(h, h[v.a][key], seen \cup {v.a})]
              IN  IF \E key \in DOMAIN fields : fields[key] = MarshalErr
                  THEN MarshalErr
                  ELSE Obj(fields)
    ELSE IF v = Struct THEN Obj(EmptyMap)
    ELSE v

(***************************************************************************)
(* main, for one document of the input file.  doc.Source is the map at     *)
(* address docSource, newSource the map made at the top of the loop body.  *)
(* Every range loop over a Go map visits the keys in an order of the       *)
(* runtime's choosing: one action per iteration, which picks any key not   *)
(* yet visited.  A panic or a log.Fatal ends the process.                  *)
(***************************************************************************)
docSource == 1

\* a variant with the loop over DefaultValues ahead of the loop over FieldMapping
StageOrder_DefaultsFirst == <<"default_values", "field_mapping", "random_generate", "file">>

StageOrder == <<"field_mapping", "default_values", "random_generate", "file">>

StageKeys(stage) ==
    IF stage = "field_mapping" THEN DOMAIN mapping.FieldMapping
    ELSE IF stage = "default_values" THEN DOMAIN mapping.DefaultValues
    ELSE IF stage = "random_generate" THEN DOMAIN mapping.RandomGenerate
    ELSE IF stage = "file" THEN DOMAIN mapping.File
    ELSE {}

StageIndex(stage) == CHOOSE i \in 1..Len(StageOrder) : StageOrder[i] = stage

\* the map entries a walk along p reads or writes, and the one it writes
SlotsOn(h, p) ==
    {<<Container(h, newSource, SubSeq(p, 1, n - 1)), p[n]>> : n \in 1..Len(p)}
Call(stage, key, val, h) ==
    [stage |-> stage, key |-> key, val |-> val,
     slots |-> SlotsOn(h, Split(key)),
     slot |-> <<Container(h, newSource, Front(Split(key))), Last(Split(key))>>]

Running == ~panicked /\ pc \notin {"fatal", "done"}

NoPanic(h) == [heap |-> h, panic |-> FALSE]

\* the body of the loop over mapping.FieldMapping, for the entry newField
fieldRule(h, newField) ==
    LET val == extractFieldValue(h, docSource, Split(mapping.FieldMapping[newField]))
    IN  IF val # Nil
        THEN [val |-> val] @@ insertFieldValue(h, newSource, Split(newField), val)
        ELSE [val |-> val] @@ NoPanic(h)

\* the body of the loop over mapping.DefaultValues, for the entry key
defaultRule(h, key) ==
    [val |-> mapping.DefaultValues[key]]
        @@ insertFieldValue(h, newSource, Split(key), mapping.DefaultValues[key])

ApplyFieldRule ==
    /\ Running /\ pc = "field_mapping"
    /\ \E newField \in pending :
        LET r == fieldRule(heap, newField) IN
            /\ heap' = r.heap
            /\ panicked' = r.panic
            /\ log' = IF r.val # Nil
                      THEN Append(log, Call(pc, newField, r.val, r.heap))
                      ELSE log
            /\ pending' = pending \ {newField}
    /\ UNCHANGED <<heap0, pc, ret, fnVars, config, loadVars,
                   mapping, files, input, newSource, pendingRow, output>>

ApplyDefault ==
    /\ Running /\ pc = "default_values"
    /\ \E key \in pending :
        LET r == defaultRule(heap, key) IN
            /\ heap' = r.heap
            /\ panicked' = r.panic
            /\ log' = Append(log, Call(pc, key, r.val, r.heap))
            /\ pending' = pending \ {key}
    /\ UNCHANGED <<heap0, pc, ret, fnVars, config, loadVars,
                   mapping, files, input, newSource, pendingRow, output>>

ApplyRandom ==
    /\ Running /\ pc = "random_generate"
    /\ \E key \in pending :
       \E val \in generateRandomValue(mapping.RandomGenerate[key]) :
        LET r == IF val = Panic
                 THEN [heap |-> heap, panic |-> TRUE]
                 ELSE insertFieldValue(heap, newSource, Split(key), val)
        IN  /\ heap' = r.heap
            /\ panicked' = r.panic
            /\ log' = IF val = Panic THEN log
                      ELSE Append(log, Call(pc, key, val, r.heap))
            /\ pending' = pending \ {key}
    /\ UNCHANGED <<heap0, pc, ret, fnVars, config, loadVars,
                   mapping, files, input, newSource, pendingRow, output>>

\* one iteration of the loop over mapping.File, up to the inner loop
ApplyFileEntry ==
    /\ Running /\ pc = "file" /\ pendingRow = {}
    /\ \E key \in pending :
        LET val == mapping.File[key]
            r == IF val \in DOMAIN files THEN extractFileData(files[val]) ELSE Fatal
        IN  /\ pending' = pending \ {key}
            /\ IF key # "path"
               THEN UNCHANGED <<pc, panicked, dataMapByID, pendingRow>>
               ELSE IF val = "" \/ r = Fatal
               THEN pc' = "fatal" /\ UNCHANGED <<panicked, dataMapByID, pendingRow>>
               ELSE IF r = Panic \/ input.ID = Nil
               THEN panicked' = TRUE /\ UNCHANGED <<pc, dataMapByID, pendingRow>>
               ELSE /\ dataMapByID' = r.m
                    /\ pendingRow' = IF input.ID.s \in DOMAIN r.m
                                     THEN DOMAIN r.m[input.ID.s] ELSE {}
                    /\ UNCHANGED <<pc, panicked>>
    /\ UNCHANGED <<heap, heap0, ret, fnVars, config, records,
                   mapping, files, input, newSource, log, output>>

\* one iteration of the inner loop over the fields of the document's row
ApplyRowField ==
    /\ Running /\ pc = "file" /\ pendingRow # {}
    /\ \E v \in pendingRow :
        LET k == dataMapByID[input.ID.s][v]
            r == insertFieldValue(heap, newSource, Split(v), k)
        IN  /\ heap' = r.heap
            /\ panicked' = r.panic
            /\ log' = Append(log, Call(pc, v, k, r.heap))
            /\ pendingRow' = pendingRow \ {v}
    /\ UNCHANGED <<heap0, pc, ret, fnVars, config, loadVars,
                   mapping, files, input, newSource, pending, output>>

\* a range loop has visited every key: the next loop starts, or json.Marshal
EndLoop ==
    /\ Running /\ pc \in {StageOrder[i] : i \in 1..Len(StageOrder)}
    /\ pending = {} /\ pendingRow = {}
    /\ IF StageIndex(pc) < Len(StageOrder)
       THEN /\ pc' = StageOrder[StageIndex(pc) + 1]
            /\ pending' = StageKeys(pc')
       ELSE /\ pc' = "marshal"
            /\ pending' = {}
    /\ heap0' = heap
    /\ UNCHANGED <<heap, panicked, ret, fnVars, config, loadVars,
                   mapping, files, input, newSource, pendingRow, log, output>>

MarshalDoc ==
    /\ Running /\ pc = "marshal"
    /\ LET src == marshalValue(heap, Ref(newSource), {}) IN
        IF src = MarshalErr
        THEN pc' = "fatal" /\ UNCHANGED output
        ELSE /\ pc' = "done"
             /\ output' = [Index |-> mapping.Index, Type |-> input.Type,
                           ID |-> input.ID, Score |-> input.Score, Source |-> src]
    /\ UNCHANGED <<heap, heap0, panicked, ret, fnVars, config, loadVars,
                   mapping, files, input, newSource, pending, pendingRow, log>>

(***************************************************************************)
(* The inputs of main: a document of at most MaxDocNodes keys, a mapping   *)
(* file of at most MaxRules entries, the side file it may name.            *)
(***************************************************************************)
\* Sources names paths under the key a alone: no other top-level key is read
MainDocuments ==
    {m \in UNION {ObjsOver(KeySeq, n) : n \in 0..MaxDocNodes} : DOMAIN m \subseteq {"a"}}
TargetSeq == <<"a", "b", "a.a", "a.b", "b.b">>
Targets == {TargetSeq[i] : i \in 1..Len(TargetSeq)}
Sources == {"a", "a.a", "a.b"}
Defaults == {Num(5), NullValue}
RandomConfigs ==
    {("type" :> Str("long")) @@ ("min" :> Num(1)) @@ ("max" :> Num(1)),
     ("type" :> Str("long"))}
FileEntries == {EmptyMap, ("path" :> "side.csv"), ("path" :> ""), ("data" :> "side.csv")}
Disks ==
    {EmptyMap,
     ("side.csv" :> <<<<"id", "a">>, <<"1", "x">>>>),
     ("side.csv" :> <<<<"id", "a.b", "b">>, <<"1", "x", "y">>>>)}

PartialMaps(D, R, n) ==
    UNION {[S -> R] : S \in {T \in SUBSET D : Cardinality(T) <= n}}

RuleCount(m) ==
    Cardinality(DOMAIN m.FieldMapping) + Cardinality(DOMAIN m.DefaultValues)
    + Cardinality(DOMAIN m.RandomGenerate) + Cardinality(DOMAIN m.File)

Init ==
    /\ \E fm \in PartialMaps(Targets, Sources, MaxRules) :
       \E dv \in PartialMaps(Targets, Defaults, MaxRules - Cardinality(DOMAIN fm)) :
       \E rg \in PartialMaps(Targets, RandomConfigs,
                             MaxRules - Cardinality(DOMAIN fm) - Cardinality(DOMAIN dv)) :
       \E fl \in FileEntries :
           mapping = [Index |-> Str("new"), FieldMapping |-> fm, DefaultValues |-> dv,
                      RandomGenerate |-> rg, File |-> fl]
    /\ RuleCount(mapping) <= MaxRules
    /\ files \in Disks
    /\ "path" \notin DOMAIN mapping.File => files = EmptyMap
    /\ input \in [Type : {Str("t")}, ID : {Str("1"), Str("2"), Nil},
                  Score : {Nil}, Source : MainDocuments]
    /\ "path" \notin DOMAIN mapping.File => input.ID = Str("1")
    /\ heap = Append(Unmarshal(<<>>, input.Source), EmptyMap)
    /\ newSource = Len(heap)
    /\ heap0 = heap
    /\ pc = StageOrder[1]
    /\ pending = StageKeys(pc)
    /\ pendingRow = {}
    /\ log = <<>>
    /\ output = <<>>
    /\ panicked = FALSE
    /\ ret = Nil
    /\ data = 0 /\ path = <<>> /\ value = Nil
    /\ config = EmptyMap
    /\ records = <<>> /\ dataMapByID = EmptyMap

Next ==
    \/ ApplyFieldRule
    \/ ApplyDefault
    \/ ApplyRandom
    \/ ApplyFileEntry
    \/ ApplyRowField
    \/ EndLoop
    \/ MarshalDoc

Spec == Init /\ [][Next]_vars

(***************************************************************************)
(* What main's claims speak of: the tree under newSource, the value a      *)
(* path holds in a JSON document, the value insertFieldValue stores for    *)
(* the value it is given.                                                  *)
(***************************************************************************)
TreeOf(h) == marshalValue(h, Ref(newSource), {})

RECURSIVE JsonAt(_, _)
JsonAt(j, q) ==
    IF q = <<>> THEN j
    ELSE IF j.k = "obj" /\ q[1] \in DOMAIN j.m THEN JsonAt(j.m[q[1]], Tail(q))
    ELSE Absent

Stored(v) == IF v = NullValue THEN Nil ELSE v

StageRank(stage) ==
    IF stage = "field_mapping" THEN 1
    ELSE IF stage = "default_values" THEN 2
    ELSE IF stage = "random_generate" THEN 3
    ELSE 4

InOrder == \A i, j \in DOMAIN log : i < j => StageRank(log[i].stage) <= StageRank(log[j].stage)

Placed(stage, x) == \E i \in DOMAIN log : log[i].stage = stage /\ log[i].key = x

AbsentFromInput(q) == JsonAt(Obj(input.Source), q) = Absent

C3_AbsentSourceCreatesNoKey ==
    pc = "done" =>
    \A i \in DOMAIN log :
        log[i].stage = "field_mapping"
            => ~AbsentFromInput(Split(mapping.FieldMapping[log[i].key]))

(***************************************************************************)
(* The entries of one category applied in the order of TargetSeq, from     *)
(* the heap the category's loop started with.                              *)
(***************************************************************************)
RECURSIVE applyInOrder(_, _, _)
applyInOrder(h, stage, i) ==
    IF i > Len(TargetSeq) THEN NoPanic(h)
    ELSE IF TargetSeq[i] \notin StageKeys(stage) THEN applyInOrder(h, stage, i + 1)
    ELSE LET r == IF stage = "field_mapping"
                  THEN fieldRule(h, TargetSeq[i])
                  ELSE defaultRule(h, TargetSeq[i])
         IN  IF r.panic THEN r ELSE applyInOrder(r.heap, stage, i + 1)

IsPrefix(p, q) == Len(p) <= Len(q) /\ SubSeq(q, 1, Len(p)) = p
PrefixFree(K) == \A x, y \in K : x # y => ~IsPrefix(Split(x), Split(y))

\* the loop of the category has ended: every key visited, or a panic
LoopOver(stage) == pc = stage /\ (panicked \/ pending = {})

\* the tree the loop started from holds nothing at a proper prefix of a target
NothingOnTheWay(K) ==
    \A x \in K : \A n \in 1..(Len(Split(x)) - 1) :
        Slot(heap0, newSource, SubSeq(Split(x), 1, n)) = Absent

====
